---- MODULE Spec2Model ----
(***************************************************************************)
(* Model of directory-monitor.py: a staging queue of files that are being  *)
(* written.  Notifier threads (one watchdog Observer per monitored root)   *)
(* call FileProcessor.on_any_event; one daemon thread runs                 *)
(* FileProcessor.process_file, the sweep; main() subscribes the roots.     *)
(* There is no lock in the program: the threads interleave between the     *)
(* statements that touch shared state (FILE_QUEUE, the file system, the    *)
(* clock, the log), and every such statement is one action here.           *)
(***************************************************************************)
EXTENDS Integers, Sequences, FiniteSets, Bags, TLC

(* ------------------------------ bounds --------------------------------- *)
\* the clock stops advancing at MaxTime (seconds since the program started)
MaxTime == 4

(* ------------------------- program constants --------------------------- *)
\* --polling-time, default=2
polling_time_secs == 2
\* time.sleep(1) at the end of a sweep pass
SLEEP_SECS == 1

(* --------------------------- the environment --------------------------- *)
\* The file system: "d1" is a directory, "d1/sub" a directory inside it,
\* "d2" a directory in which nothing is written, "nx" names no directory.
\* "d1/a" is a file of d1, "d1/sub/b" a file of d1/sub (and so, the watch
\* being recursive, of d1 as well).
Dirs == {"d1", "d1/sub", "d2", "nx"}
Paths == {"d1/a", "d1/sub/b"}
\* The sizes a stat can find.  The program only compares sizes for equality
\* with the one stored size, so two sizes show every outcome.
Sizes == {1, 2}
\* the file does not exist
Missing == 0

\* os.path.exists(directory) at startup
DirExists(d) == d \in {"d1", "d1/sub", "d2"}

\* the files whose events a recursive watch of directory d reports
Covers(d) == IF d = "d1" THEN {"d1/a", "d1/sub/b"}
             ELSE IF d = "d1/sub" THEN {"d1/sub/b"}
             ELSE {}

\* argv: the lists --directories-to-monitor may hold
RootLists == {<<"d1">>, <<"d1/sub", "nx">>, <<"nx", "d2", "d1/sub">>,
              <<"d1/sub", "d1/sub">>}

EventTypes == {"created", "modified", "deleted", "moved"}
NoEvent == [src_path |-> "", event_type |-> "", is_directory |-> FALSE]

\* one notifier thread per DirectoryWatcher; at most two roots of a list exist
Threads == {1, 2}

VARIABLES
  now,              \* datetime.datetime.now(), in seconds
  fileSize,         \* the file system as last seen: what the last stat found
  FILE_QUEUE,       \* the dict, in insertion order: sequence of FileQueueItem
  log,              \* what logzero has written: the bag of its lines
  directories,      \* args.directories_to_monitor
  mi,               \* main(): index of the next directory of the for loop
  watchers,         \* the DirectoryWatchers created, in order
  npc,              \* per notifier thread: where on_any_event stands
  event,            \* per notifier thread: the event of the current/last call
  queued_file,      \* per notifier thread: the FileQueueItem being filled
  result,           \* per notifier thread: how the last call ended
  spc,              \* the sweep thread: where process_file stands
  current_time,     \* process_file: local of the pass
  current_items,    \* process_file: the copy of FILE_QUEUE of the pass
  idx,              \* process_file: items of current_items already visited
  verdict,          \* process_file: what this pass did with each path
  polls,            \* history: sweep stats of each path since its last insert
  last_line,        \* history: the last line logged about each path, which
                    \* the bag does not tell: "none", "added" or "ready"
  wake_at           \* process_file: when time.sleep(1) returns

vars == <<now, fileSize, FILE_QUEUE, log, directories, mi, watchers,
          npc, event, queued_file, result,
          spc, current_time, current_items, idx, verdict, polls, last_line,
          wake_at>>

envVars == <<now, fileSize>>
mainVars == <<directories, mi, watchers>>
notifierVars == <<npc, event, queued_file, result>>
sweepVars == <<spc, current_time, current_items, idx, verdict, wake_at>>
histVars == <<polls, last_line>>

(* ------------------------ the dict FILE_QUEUE -------------------------- *)
\* FileQueueItem: file_name and file_extention are derived from file_path
\* and never read by the queue logic.  sampled_at is not a field of the
\* class: it records when the os.path.getsize call that produced file_size
\* was made, for the properties that speak of when a sample was taken.  For
\* the sample of on_any_event it is the clock reading of the next statement
\* but two (line 102), which is not earlier than the sample; for a sample
\* of the sweep it is the time of the call itself.
Item(p, s, t) ==
  [file_path |-> p, file_size |-> s, next_poll |-> t, sampled_at |-> 0]
NoItem == Item("", Missing, 0)

Keys(q) == {q[i].file_path : i \in 1..Len(q)}

\* q[p], for p in Keys(q)
Get(q, p) == LET i == CHOOSE j \in 1..Len(q) : q[j].file_path = p IN q[i]

\* a slip: the store empties the dict first
PutAlone(q, p, item) == <<item>>

\* q[p] = item: an existing key keeps its position, a new key goes last
Put(q, p, item) ==
  IF p \in Keys(q)
  THEN [i \in 1..Len(q) |-> IF q[i].file_path = p THEN item ELSE q[i]]
  ELSE Append(q, item)

\* a slip: q.clear() where q.pop(p) is meant
PopClears(q, p) == <<>>

\* q.pop(p), for p in Keys(q)
Pop(q, p) == SelectSeq(q, LAMBDA it : it.file_path # p)

(* ------------------------------- Init ---------------------------------- *)
\* FileProcessor(...) has been constructed: the sweep thread is started and
\* about to read the clock; main() has not subscribed any root yet.
Init ==
  /\ now = 0
  /\ fileSize = [p \in Paths |-> Missing]
  /\ FILE_QUEUE = <<>>
  /\ log = EmptyBag
  /\ directories \in RootLists
  /\ mi = 1
  /\ watchers = <<>>
  /\ npc = [k \in Threads |-> "idle"]
  /\ event = [k \in Threads |-> NoEvent]
  /\ queued_file = [k \in Threads |-> NoItem]
  /\ result = [k \in Threads |-> "none"]
  /\ spc = "sleep"
  /\ current_time = 0
  /\ current_items = <<>>
  /\ idx = 0
  /\ verdict = [p \in Paths |-> "none"]
  /\ polls = [p \in Paths |-> 0]
  /\ last_line = [p \in Paths |-> "none"]
  /\ wake_at = 0

(* --------------------------- the environment --------------------------- *)
\* one second passes
Tick ==
  /\ now < MaxTime
  /\ now' = now + 1
  /\ UNCHANGED <<histVars, fileSize, FILE_QUEUE, log, mainVars, notifierVars, sweepVars>>

\* os.path.getsize(p) returns s, or raises when s = Missing.  Other
\* processes create, write and delete files at any moment, so a stat may
\* find any size whatever the stat before it found; fileSize keeps what the
\* last stat of each path found.
Stat(p, s) ==
  /\ s \in Sizes \cup {Missing}
  /\ fileSize' = [fileSize EXCEPT ![p] = s]

(* -------------------------------- main --------------------------------- *)
\* a slip: the loop ends at the first directory that does not exist
MainLoopBreaks ==
  /\ mi <= Len(directories)
  /\ LET directory == directories[mi] IN
       IF DirExists(directory)
       THEN /\ watchers' = Append(watchers, directory)
            /\ log' = log (+) SetToBag({<<"monitor", directory>>})
            /\ mi' = mi + 1
       ELSE /\ watchers' = watchers
            /\ log' = log (+) SetToBag({<<"error", directory>>})
            /\ mi' = Len(directories) + 1
  /\ UNCHANGED <<histVars, envVars, FILE_QUEUE, directories, notifierVars, sweepVars>>

\* one iteration of "for directory in args.directories_to_monitor"
MainLoop ==
  /\ mi <= Len(directories)
  /\ LET directory == directories[mi] IN
       IF DirExists(directory)
       THEN /\ watchers' = Append(watchers, directory)
            /\ log' = log (+) SetToBag({<<"monitor", directory>>})
       ELSE /\ watchers' = watchers
            /\ log' = log (+) SetToBag({<<"error", directory>>})
  /\ mi' = mi + 1
  /\ UNCHANGED <<histVars, envVars, FILE_QUEUE, directories, notifierVars, sweepVars>>

(* ------------------- FileProcessor.on_any_event ------------------------ *)
\* the notifications the watcher of thread k can deliver
Events(k) ==
  IF k > Len(watchers) THEN {}
  ELSE [src_path : Covers(watchers[k]), event_type : EventTypes,
        is_directory : BOOLEAN]

\* how a call that returned at the filter is remembered: a notification that
\* a file was deleted apart from the others
Ignored(e) == IF e.event_type = "deleted" /\ ~e.is_directory
              THEN "ignored_deleted" ELSE "ignored"

\* a slip: the filter only looks at is_directory
QualifiesAnyFileEvent(e) == ~e.is_directory

\* "if event.is_directory or event.event_type != 'modified': return", negated
Qualifies(e) == ~(e.is_directory \/ e.event_type # "modified")

\* the notifier calls on_any_event(e) and the call returns at the filter
Ignore(k, e) ==
  /\ npc[k] = "idle"
  /\ ~Qualifies(e)
  /\ result' = [result EXCEPT ![k] = Ignored(e)]
  /\ UNCHANGED <<histVars, envVars, FILE_QUEUE, log, mainVars, npc, event, queued_file, sweepVars>>

\* the notifier calls on_any_event(e) and the call returns at
\* "if event.src_path in FILE_QUEUE: return"
AlreadyQueued(k, e) ==
  /\ npc[k] = "idle"
  /\ Qualifies(e)
  /\ e.src_path \in Keys(FILE_QUEUE)
  /\ result' = [result EXCEPT ![k] = "queued"]
  /\ UNCHANGED <<histVars, envVars, FILE_QUEUE, log, mainVars, npc, event, queued_file, sweepVars>>

\* a slip: no "if event.src_path in FILE_QUEUE: return"
AcceptUntested(k, e) ==
  /\ npc[k] = "idle"
  /\ Qualifies(e)
  /\ event' = [event EXCEPT ![k] = e]
  /\ result' = [result EXCEPT ![k] = "none"]
  /\ log' = log (+) SetToBag({<<"added", e.src_path>>})
  /\ npc' = [npc EXCEPT ![k] = "getsize"]
  /\ last_line' = [last_line EXCEPT ![e.src_path] = "added"]
  /\ UNCHANGED <<polls, envVars, FILE_QUEUE, mainVars, queued_file, sweepVars>>

\* the notifier calls on_any_event(e), the path is not in FILE_QUEUE: log
\* "Adding to queue" and go on to fill a FileQueueItem
Accept(k, e) ==
  /\ npc[k] = "idle"
  /\ Qualifies(e)
  /\ e.src_path \notin Keys(FILE_QUEUE)
  /\ event' = [event EXCEPT ![k] = e]
  /\ result' = [result EXCEPT ![k] = "none"]
  /\ log' = log (+) SetToBag({<<"added", e.src_path>>})
  /\ npc' = [npc EXCEPT ![k] = "getsize"]
  /\ last_line' = [last_line EXCEPT ![e.src_path] = "added"]
  /\ UNCHANGED <<polls, envVars, FILE_QUEUE, mainVars, queued_file, sweepVars>>

\* queued_file.file_size = os.path.getsize(event.src_path), the file exists
GetSize(k, s) ==
  /\ npc[k] = "getsize"
  /\ s # Missing
  /\ Stat(event[k].src_path, s)
  /\ queued_file' = [queued_file EXCEPT ![k] = Item(event[k].src_path, s, 0)]
  /\ npc' = [npc EXCEPT ![k] = "now"]
  /\ UNCHANGED <<histVars, now, FILE_QUEUE, log, mainVars, event, result, sweepVars>>

\* os.path.getsize raises FileNotFoundError: nothing in on_any_event catches
\* it, the call ends with the exception in the notifier's thread
GetSizeRaises(k) ==
  /\ npc[k] = "getsize"
  /\ Stat(event[k].src_path, Missing)
  /\ npc' = [npc EXCEPT ![k] = "raised"]
  /\ result' = [result EXCEPT ![k] = "raised"]
  /\ UNCHANGED <<histVars, now, FILE_QUEUE, log, mainVars, event, queued_file, sweepVars>>

\* queued_file.next_poll = datetime.datetime.now() + timedelta(polling_time_secs)
SetNextPoll(k) ==
  /\ npc[k] = "now"
  /\ queued_file' = [queued_file EXCEPT ![k].next_poll = now + polling_time_secs,
                                        ![k].sampled_at = now]
  /\ npc' = [npc EXCEPT ![k] = "insert"]
  /\ UNCHANGED <<histVars, envVars, FILE_QUEUE, log, mainVars, event, result, sweepVars>>

\* FILE_QUEUE[event.src_path] = queued_file
Insert(k) ==
  /\ npc[k] = "insert"
  /\ FILE_QUEUE' = Put(FILE_QUEUE, event[k].src_path, queued_file[k])
  /\ npc' = [npc EXCEPT ![k] = "idle"]
  /\ result' = [result EXCEPT ![k] = "added"]
  /\ queued_file' = [queued_file EXCEPT ![k] = NoItem]
  /\ event' = [event EXCEPT ![k] = NoEvent]
  /\ polls' = [polls EXCEPT ![event[k].src_path] = 0]
  /\ UNCHANGED <<last_line, envVars, log, mainVars, sweepVars>>

(* -------------------- FileProcessor.process_file ----------------------- *)
\* "if queued_file.next_poll > current_time: continue", negated
IsDue(item, t) == ~(item.next_poll > t)

\* the item of current_items the for loop stands on
Current == current_items[idx + 1]

\* current_time = datetime.datetime.now(), once time.sleep(1) has returned;
\* the clock of the model stops at MaxTime, and a sleep that would end
\* later than that ends there
ReadClock ==
  /\ spc = "sleep"
  /\ now >= wake_at \/ now = MaxTime
  /\ current_time' = now
  /\ spc' = "copy"
  /\ wake_at' = 0
  /\ UNCHANGED <<histVars, envVars, FILE_QUEUE, log, mainVars, notifierVars,
                 current_items, idx, verdict>>

\* current_items = dict(FILE_QUEUE)
CopyQueue ==
  /\ spc = "copy"
  /\ current_items' = FILE_QUEUE
  /\ idx' = 0
  /\ verdict' = [p \in Paths |-> "none"]
  /\ spc' = "loop"
  /\ UNCHANGED <<histVars, envVars, FILE_QUEUE, log, mainVars, notifierVars,
                 current_time, wake_at>>

\* not due: continue
Skip ==
  /\ spc = "loop"
  /\ idx < Len(current_items)
  /\ ~IsDue(Current, current_time)
  /\ verdict' = [verdict EXCEPT ![Current.file_path] = "skip"]
  /\ idx' = idx + 1
  /\ UNCHANGED <<histVars, envVars, FILE_QUEUE, log, mainVars, notifierVars,
                 spc, current_time, current_items, wake_at>>

\* a slip: the failed stat is caught and the loop goes on to the next item
StatRaisesCaught ==
  /\ spc = "loop"
  /\ idx < Len(current_items)
  /\ IsDue(Current, current_time)
  /\ Stat(Current.file_path, Missing)
  /\ verdict' = [verdict EXCEPT ![Current.file_path] = "raised"]
  /\ idx' = idx + 1
  /\ UNCHANGED <<histVars, now, FILE_QUEUE, log, mainVars, notifierVars,
                 spc, current_time, current_items, wake_at>>

\* due, and os.path.getsize raises: nothing in process_file catches it, the
\* thread ends
StatRaises ==
  /\ spc = "loop"
  /\ idx < Len(current_items)
  /\ IsDue(Current, current_time)
  /\ Stat(Current.file_path, Missing)
  /\ verdict' = [verdict EXCEPT ![Current.file_path] = "raised"]
  /\ spc' = "dead"
  /\ UNCHANGED <<histVars, now, FILE_QUEUE, log, mainVars, notifierVars,
                 current_time, current_items, idx, wake_at>>

\* a slip: the re-armed item keeps the old size
ReArmedOldSize(item, size, t) ==
  Item(item.file_path, item.file_size, t + polling_time_secs)

\* the item as the sweep re-arms it
ReArmed(item, size, t) == Item(item.file_path, size, t + polling_time_secs)

\* due, the size differs: update the item and store it back.  The items of
\* current_items are the objects of FILE_QUEUE (dict() copies the references)
\* and no other thread reads an item's fields, so the two field writes and
\* the store are one step.
ReArm(s) ==
  /\ spc = "loop"
  /\ idx < Len(current_items)
  /\ IsDue(Current, current_time)
  /\ s # Missing
  /\ Stat(Current.file_path, s)
  /\ s # Current.file_size
  /\ FILE_QUEUE' = Put(FILE_QUEUE, Current.file_path,
                       [ReArmed(Current, s, current_time)
                          EXCEPT !.sampled_at = now])
  /\ verdict' = [verdict EXCEPT ![Current.file_path] = "rearm"]
  /\ polls' = [polls EXCEPT ![Current.file_path] = @ + 1]
  /\ idx' = idx + 1
  /\ UNCHANGED <<last_line, now, log, mainVars, notifierVars,
                 spc, current_time, current_items, wake_at>>

\* a slip: an unchanged size is answered with "continue"
SettledContinues(s) ==
  /\ spc = "loop"
  /\ idx < Len(current_items)
  /\ IsDue(Current, current_time)
  /\ s # Missing
  /\ Stat(Current.file_path, s)
  /\ s = Current.file_size
  /\ verdict' = [verdict EXCEPT ![Current.file_path] = "settled"]
  /\ idx' = idx + 1
  /\ UNCHANGED <<histVars, now, FILE_QUEUE, log, mainVars, notifierVars,
                 spc, current_time, current_items, wake_at>>

\* due, the size is the stored one: go on to the pop
Settled(s) ==
  /\ spc = "loop"
  /\ idx < Len(current_items)
  /\ IsDue(Current, current_time)
  /\ s # Missing
  /\ Stat(Current.file_path, s)
  /\ s = Current.file_size
  /\ verdict' = [verdict EXCEPT ![Current.file_path] = "settled"]
  /\ polls' = [polls EXCEPT ![Current.file_path] = @ + 1]
  /\ spc' = "pop"
  /\ UNCHANGED <<last_line, now, FILE_QUEUE, log, mainVars, notifierVars,
                 current_time, current_items, idx, wake_at>>

\* FILE_QUEUE.pop(queue_file_path); a KeyError would end the thread
PopItem ==
  /\ spc = "pop"
  /\ FILE_QUEUE' = Pop(FILE_QUEUE, Current.file_path)
  /\ spc' = IF Current.file_path \in Keys(FILE_QUEUE) THEN "log" ELSE "dead"
  /\ UNCHANGED <<histVars, envVars, log, mainVars, notifierVars,
                 current_time, current_items, idx, verdict, wake_at>>

\* logger.info("'%s' is ready for processing", queued_file.file_path)
LogReady ==
  /\ spc = "log"
  /\ log' = log (+) SetToBag({<<"ready", Current.file_path>>})
  /\ verdict' = [verdict EXCEPT ![Current.file_path] = "ready"]
  /\ idx' = idx + 1
  /\ spc' = "loop"
  /\ last_line' = [last_line EXCEPT ![Current.file_path] = "ready"]
  /\ UNCHANGED <<polls, envVars, FILE_QUEUE, mainVars, notifierVars,
                 current_time, current_items, wake_at>>

\* the for loop is over: time.sleep(1)
Sleep ==
  /\ spc = "loop"
  /\ idx = Len(current_items)
  /\ spc' = "sleep"
  /\ wake_at' = now + SLEEP_SECS
  /\ current_time' = 0
  /\ current_items' = <<>>
  /\ idx' = 0
  /\ verdict' = [p \in Paths |-> "none"]
  /\ UNCHANGED <<histVars, envVars, FILE_QUEUE, log, mainVars, notifierVars>>

(* ------------------------------- Next ---------------------------------- *)
on_any_event(k) ==
  \/ \E e \in Events(k) : Ignore(k, e)
  \/ \E e \in Events(k) : AlreadyQueued(k, e)
  \/ \E e \in Events(k) : Accept(k, e)
  \/ \E s \in Sizes : GetSize(k, s)
  \/ GetSizeRaises(k)
  \/ SetNextPoll(k)
  \/ Insert(k)

process_file ==
  \/ ReadClock
  \/ CopyQueue
  \/ Skip
  \/ StatRaises
  \/ \E s \in Sizes : ReArm(s)
  \/ \E s \in Sizes : Settled(s)
  \/ PopItem
  \/ LogReady
  \/ Sleep

Next ==
  \/ Tick
  \/ MainLoop
  \/ \E k \in Threads : on_any_event(k)
  \/ process_file

Spec == Init /\ [][Next]_vars

\* the sweep thread is scheduled again and again ("while True" with a sleep
\* of one second) and the clock goes on; nothing is asked of the notifiers
\* started with one watcher, or with two watchers that see the same file
LiveRootLists == {<<"d1/sub", "nx">>, <<"d1/sub", "d1/sub">>}
LiveInit == Init /\ directories \in LiveRootLists
LiveSpec ==
  LiveInit /\ [][Next]_vars /\ WF_vars(process_file) /\ WF_vars(Tick)

(* ------------------------ words for the claims ------------------------ *)
TypeOK ==
  /\ now \in 0..MaxTime
  /\ fileSize \in [Paths -> Sizes \cup {Missing}]
  /\ Cardinality(Keys(FILE_QUEUE)) = Len(FILE_QUEUE)
  /\ spc \in {"sleep", "copy", "loop", "pop", "log", "dead"}
  /\ \A k \in Threads : npc[k] \in {"idle", "getsize", "now", "insert", "raised"}

\* the lines "... Adding to queue" and "... is ready for processing" of path p
Added(p) == CopiesIn(<<"added", p>>, log)
Ready(p) == CopiesIn(<<"ready", p>>, log)

Tracked == Keys(FILE_QUEUE)
Entry(p) == Get(FILE_QUEUE, p)
\* p leaves the map in this step
Removed(p) == p \in Keys(FILE_QUEUE) /\ p \notin Keys(FILE_QUEUE')

\* this step is a step of the sweep thread
SweepStep == sweepVars' # sweepVars
\* a pass is under way
InPass == spc \in {"loop", "pop", "log"}
\* this step is the sweep's examination of the item the loop stands on
Examines == spc = "loop" /\ idx < Len(current_items) /\ verdict' # verdict
\* ... and what that examination's stat found, when it made one
Measured == fileSize'[Current.file_path]
\* the sweep stats path p in this step
SweepStats(p) ==
  Examines /\ Current.file_path = p /\ verdict'[p] \in {"raised", "rearm", "settled"}

\* the calls of on_any_event that have logged "Adding to queue" for p and
\* not ended
Running(p) ==
  Cardinality({k \in Threads : npc[k] \in {"getsize", "now", "insert"}
                               /\ event[k].src_path = p})
InMap(p) == IF p \in Keys(FILE_QUEUE) THEN 1 ELSE 0

(* ------------------------------- claims -------------------------------- *)
\* C1: a path leaves FILE_QUEUE only by the sweep's pop, and only in a pass
\* in which the entry in the map is due (next_poll <= current_time) and the
\* size the pass measured is the size stored in that entry; "ready" lines
\* are written one at a time, by the sweep, for the path it popped; and an
\* examined entry that is due with the measured size equal to the stored one
\* is not passed over but popped.
C1_RemovedOnlyWhenDueAndSettled ==
  [][\A p \in Paths :
       /\ Removed(p) =>
            /\ spc = "pop" /\ spc' = "log" /\ Current.file_path = p
            /\ verdict[p] = "settled"
            /\ Entry(p).next_poll <= current_time
            /\ Entry(p).file_size = Current.file_size
       /\ Ready(p)' # Ready(p) =>
            /\ spc = "log" /\ Current.file_path = p
            /\ Ready(p)' = Ready(p) + 1
       /\ (Examines /\ Current.file_path = p
             /\ Current.next_poll <= current_time
             /\ Measured = Current.file_size) => spc' = "pop"
    ]_vars

\* C2: when the sweep examines a due entry and measures a size other than
\* the stored one, the path stays in the map, its entry now holding the
\* measured size and next_poll = current_time + polling_time_secs (later
\* than before), no line is logged, the loop goes on to the next item (no
\* pop, so no "ready" for this path in this pass) and every other entry is
\* as it was; a path re-armed in a pass is still in the map while the pass
\* lasts; and an entry that was re-armed before and is now due with the
\* measured size equal to the stored one is popped (sizes a, b, b: re-armed
\* once, ready at the third observation).
C2_ReArmOnGrowth ==
  [][/\ (Examines /\ Current.next_poll <= current_time
           /\ Measured \notin {Missing, Current.file_size}) =>
          LET p == Current.file_path IN
            /\ p \in Keys(FILE_QUEUE')
            /\ Get(FILE_QUEUE', p).file_size = Measured
            /\ Get(FILE_QUEUE', p).next_poll = current_time + polling_time_secs
            /\ Get(FILE_QUEUE', p).next_poll > Current.next_poll
            /\ log' = log
            /\ spc' = "loop" /\ idx' = idx + 1
            /\ \A q \in Paths \ {p} :
                 /\ q \in Keys(FILE_QUEUE') <=> q \in Keys(FILE_QUEUE)
                 /\ q \in Keys(FILE_QUEUE) => Get(FILE_QUEUE', q) = Entry(q)
     /\ \A p \in Paths : verdict'[p] = "rearm" => p \in Keys(FILE_QUEUE')
     /\ (Examines /\ Current.next_poll <= current_time
           /\ polls[Current.file_path] >= 1
           /\ Measured = Current.file_size) => spc' = "pop"
    ]_vars

\* C2 witness: one "Adding to queue" line, then a re-arm at the first poll
\* and "ready" at the second
C2_Witness ==
  /\ verdict["d1/a"] = "ready"
  /\ polls["d1/a"] = 2
  /\ Added("d1/a") = 1
  /\ Ready("d1/a") = 1
  /\ "d1/a" \notin Keys(FILE_QUEUE)

C4_DueTimeGating ==
  [][\A p \in Paths :
       (InPass /\ SweepStep /\ p \in Keys(FILE_QUEUE)
          /\ Entry(p).next_poll > current_time) =>
         /\ p \in Keys(FILE_QUEUE')
         /\ Get(FILE_QUEUE', p) = Entry(p)
         /\ ~SweepStats(p)
    ]_vars

\* C5: once a path has been inserted it leaves the map only by the sweep's
\* pop of that very path, after the sweep found it settled; the steps the
\* sweep makes for another path (re-arm write-back, pop) and the steps of
\* every ingest leave the path in the map; and the snapshot a pass takes
\* is the whole map of that moment, so every insertion completed before
\* the snapshot is in it and an insertion completed later is in the next.
C5_NoIngestLost ==
  [][/\ \A p \in Paths :
          /\ Removed(p) =>
               /\ spc = "pop" /\ Current.file_path = p
               /\ verdict[p] = "settled"
               /\ p \in Keys(current_items)
          /\ (p \in Keys(FILE_QUEUE) /\ InPass /\ SweepStep
                /\ (idx < Len(current_items) => Current.file_path # p)) =>
               /\ p \in Keys(FILE_QUEUE')
               /\ Get(FILE_QUEUE', p) = Entry(p)
          /\ (p \in Keys(FILE_QUEUE) /\ ~SweepStep) => p \in Keys(FILE_QUEUE')
     /\ (spc = "copy" /\ spc' = "loop") =>
          /\ current_items' = FILE_QUEUE
          /\ FILE_QUEUE' = FILE_QUEUE
    ]_vars

\* C5 witness: an ingest completed while a pass was under way: the path is
\* in the map but not in the snapshot, and the pass has since written back
\* or removed another entry
C5_Witness ==
  /\ InPass
  /\ "d1/sub/b" \in Keys(FILE_QUEUE)
  /\ "d1/sub/b" \notin Keys(current_items)
  /\ result[1] = "added"
  /\ verdict["d1/a"] \in {"rearm", "ready"}

\* C6: when the sweep's stat of a due entry fails because the file is gone,
\* the map and the log are left as they are and the sweep carries on with
\* its loop (so that it can stat the entry again at the next tick).
C6_SweepStatFailureRetried ==
  [][(Examines /\ Current.next_poll <= current_time /\ Measured = Missing) =>
       /\ FILE_QUEUE' = FILE_QUEUE
       /\ log' = log
       /\ spc' = "loop"
    ]_vars

\* C7: when the stat made by an ingest fails because the file is gone, the
\* notification is dropped silently: the map is left as it is, the call
\* returns to the notifier without an error, and no "Adding to queue" line
\* exists for it (for a path never tracked before and handled by no other
\* call, the log holds no such line at all).
C7_IngestStatFailureDropped ==
  [][\A k \in Threads :
       (npc[k] = "getsize" /\ npc'[k] # "getsize"
          /\ fileSize'[event[k].src_path] = Missing) =>
         LET p == event[k].src_path IN
           /\ FILE_QUEUE' = FILE_QUEUE
           /\ npc'[k] = "idle"
           /\ result'[k] # "raised"
           /\ (p \notin Keys(FILE_QUEUE) /\ Ready(p) = 0 /\ spc # "log"
                 /\ Running(p) = 1) => Added(p)' = 0
    ]_vars

\* C8: a notification is acted upon only if it is a 'modified' notification
\* for a file: a call goes past the filter only with such an event; handling
\* a directory notification or a created, deleted or moved notification
\* leaves the map and the log as they are, also when it is a deleted
\* notification for a tracked path; and no step of a notifier thread takes
\* a path out of the map.
C8_EventFiltering ==
  [][\A k \in Threads :
       /\ (npc[k] = "idle" /\ npc'[k] # "idle") =>
            /\ event'[k].event_type = "modified"
            /\ ~event'[k].is_directory
       /\ (result'[k] \in {"ignored", "ignored_deleted"}
             /\ result'[k] # result[k]) =>
            /\ FILE_QUEUE' = FILE_QUEUE
            /\ log' = log
            /\ npc'[k] = "idle" /\ npc[k] = "idle"
       /\ npc'[k] # npc[k] \/ result'[k] # result[k] =>
            Keys(FILE_QUEUE) \subseteq Keys(FILE_QUEUE')
    ]_vars

\* C8 witness: a deleted notification for a tracked path has been handled
\* and the path is still tracked
C8_Witness ==
  /\ result[1] = "ignored_deleted"
  /\ "d1/sub/b" \in Keys(FILE_QUEUE)
  /\ watchers = <<"d1/sub">>
  /\ Added("d1/sub/b") = 1

\* C9: a tracked file that stays as it is is reported ready by the first
\* pass whose time has reached its next_poll; so a pass never stops while
\* an entry of its snapshot that is due is still waiting to be examined.
C9_DueEntryReachedByPass ==
  [][(InPass /\ spc' = "dead") =>
       \A i \in (idx + 2)..Len(current_items) :
         current_items[i].next_poll > current_time
    ]_vars

\* C10: at every point of startup the subscriptions are exactly the roots
\* that exist among those looked at so far, in list order; each root looked
\* at has its line in the log, an error for a missing one and "Adding
\* monitor" for an existing one; so a missing root neither ends the loop nor
\* costs a later root its subscription.
C10_MissingRootSkipped ==
  LET seen == SubSeq(directories, 1, mi - 1)
      Count(d) == Cardinality({i \in 1..Len(seen) : seen[i] = d})
  IN
    /\ mi \in 1..(Len(directories) + 1)
    /\ watchers = SelectSeq(seen, LAMBDA d : d \in {"d1", "d1/sub", "d2"})
    /\ \A d \in Dirs :
         /\ CopiesIn(<<"error", d>>, log) = IF d = "nx" THEN Count(d) ELSE 0
         /\ CopiesIn(<<"monitor", d>>, log) = IF d = "nx" THEN 0 ELSE Count(d)

\* C10 witness: startup is over for a list whose first root is missing: the
\* two roots after it are subscribed, in order, and the error is logged
C10_Witness ==
  /\ mi > Len(directories)
  /\ directories = <<"nx", "d2", "d1/sub">>
  /\ watchers = <<"d2", "d1/sub">>
  /\ CopiesIn(<<"error", "nx">>, log) = 1
  /\ "d1/sub/b" \in Keys(FILE_QUEUE)

\* C11: whenever the sweep's stat of a due entry finds the stored size (the
\* step that leads to the pop and the "ready" line), the sample that
\* produced the stored size was taken at least polling_time_secs before
\* that stat, whether it was taken by on_any_event or by an earlier pass.
C11_SamplesOnePollingIntervalApart ==
  [][(Examines /\ Current.next_poll <= current_time
        /\ Measured = Current.file_size) =>
       now >= Current.sampled_at + polling_time_secs
    ]_vars

\* C12: whenever next_poll is written, the value written is the time of
\* that moment plus polling_time_secs: when on_any_event sets the field of
\* the item it is building, and when the sweep re-arms a due entry whose
\* size has changed.
C12_NextPollIsNowPlusInterval ==
  [][/\ \A k \in Threads :
          queued_file'[k].next_poll # queued_file[k].next_poll
            /\ queued_file'[k].file_path # "" =>
              queued_file'[k].next_poll = now + polling_time_secs
     /\ (Examines /\ Current.next_poll <= current_time
           /\ Measured \notin {Missing, Current.file_size}) =>
          Get(FILE_QUEUE', Current.file_path).next_poll
            = now + polling_time_secs
    ]_vars

\* C13: an entry of the map is changed by the sweep only: a step of a
\* notifier thread leaves every path that is in the map in the map with
\* the same file_size and next_poll, and writes "Adding to queue" only
\* for a path for which no other call has written it and not yet inserted.
C13_OnlySweepChangesEntries ==
  [][/\ \A p \in Paths :
          (p \in Keys(FILE_QUEUE) /\ ~SweepStep) =>
            /\ p \in Keys(FILE_QUEUE')
            /\ Get(FILE_QUEUE', p) = Entry(p)
     /\ \A p \in Paths : Added(p)' # Added(p) => Running(p) = 0
    ]_vars

\* C14: a failed stat in the sweep ends the sweep for good: the step on
\* which the stat of a due entry finds the file gone leaves the sweep dead;
\* from then on the sweep takes no step, no path leaves the map and no
\* "ready" line is written, so the map can only grow.
C14_SweepFaultStopsDetection ==
  [][/\ (Examines /\ Current.next_poll <= current_time
           /\ Measured = Missing) => spc' = "dead"
     /\ spc = "dead" =>
          /\ spc' = "dead"
          /\ ~SweepStep
          /\ Keys(FILE_QUEUE) \subseteq Keys(FILE_QUEUE')
          /\ Len(FILE_QUEUE') >= Len(FILE_QUEUE)
          /\ \A p \in Paths : Ready(p)' = Ready(p)
          /\ \A p \in Keys(FILE_QUEUE) :
               Get(FILE_QUEUE', p) # Entry(p) =>
                 \E k \in Threads : npc[k] = "insert" /\ npc'[k] = "idle"
    ]_vars

\* C14 witness: the stat of d1/a has failed, the sweep is dead, and the map
\* has since taken in a path that the last snapshot did not hold
C14_Witness ==
  /\ spc = "dead"
  /\ verdict["d1/a"] = "raised"
  /\ Keys(current_items) = {"d1/a"}
  /\ Keys(FILE_QUEUE) = {"d1/a", "d1/sub/b"}
  /\ Entry("d1/sub/b").next_poll > current_time + polling_time_secs
  /\ result[1] = "added"

\* C15: per path the lines of the log alternate, "Adding to queue" first:
\* a "ready" line is written only when the last line about the path is
\* an "Adding to queue" line, and while the last line about a path is
\* "ready" the path is not in the map.
C15_AddedThenReady ==
  [][\A p \in Paths :
       /\ Ready(p)' # Ready(p) => last_line[p] = "added"
       /\ Ready(p)' <= Added(p)'
       /\ last_line'[p] = "ready" => p \notin Keys(FILE_QUEUE')
    ]_vars

\* C16: a pass examines the entries of the map of the moment of its
\* snapshot and no others: the snapshot is the map as it was when taken
\* and stays as it is while the pass lasts, and an entry inserted after the
\* snapshot (one whose path the snapshot does not hold, or one that has
\* taken the place of a snapshot item the pass has not visited yet) is,
\* while the pass lasts, neither measured by the sweep nor changed nor
\* removed.
C16_SnapshotIsolation ==
  [][/\ (spc = "copy" /\ spc' = "loop") =>
          current_items' = FILE_QUEUE /\ idx' = 0
     /\ InPass /\ InPass' => current_items' = current_items
     /\ \A p \in Paths :
          (InPass /\ SweepStep /\ p \in Keys(FILE_QUEUE)
             /\ \/ p \notin Keys(current_items)
                \/ \E i \in (idx + 1)..Len(current_items) :
                     /\ current_items[i].file_path = p
                     /\ current_items[i] # Entry(p)) =>
            /\ ~SweepStats(p)
            /\ p \in Keys(FILE_QUEUE')
            /\ Get(FILE_QUEUE', p) = Entry(p)
    ]_vars

\* C17: with the sweep loop and the clock weakly fair, every entry of the
\* map that falls due before the clock's horizon is eventually dealt with:
\* the path leaves the map (and is reported ready), or the sweep finds its
\* size changed and re-arms it, or a stat of the sweep fails and ends the
\* sweep, or an ingest replaces the entry by one that falls due beyond the
\* horizon.  So unless a stat fails, a tracked file whose size stops
\* changing, hence is re-armed no more, is removed and reported ready,
\* whatever notifications arrive.
C17_EventuallyReady ==
  \A p \in Paths :
    (p \in Keys(FILE_QUEUE) /\ Entry(p).next_poll <= MaxTime)
      ~> \/ p \notin Keys(FILE_QUEUE)
         \/ verdict[p] = "rearm"
         \/ spc = "dead"
         \/ Entry(p).next_poll > MaxTime

\* C17 witness: d1/sub/b was re-armed once, then found unchanged, removed
\* and reported ready, while a further notification for it was turned away
C17_Witness ==
  /\ Ready("d1/sub/b") = 1
  /\ polls["d1/sub/b"] = 2
  /\ "d1/sub/b" \notin Keys(FILE_QUEUE)
  /\ result[1] = "queued"
  /\ spc = "sleep"

\* C18: whenever the sweep is about to execute FILE_QUEUE.pop for the
\* snapshot item it found ready, the item's path is a key of the map, so
\* the pop does not raise and the sweep goes on to the "ready" line.
C18_PopFindsKey ==
  spc = "pop" => Current.file_path \in Keys(FILE_QUEUE)

\* C18 witness: the sweep is about to pop a path whose entry an ingest has
\* replaced since the snapshot; the key is there
C18_Witness ==
  /\ spc = "pop"
  /\ Current.file_path = "d1/sub/b"
  /\ "d1/sub/b" \in Keys(FILE_QUEUE)
  /\ Entry("d1/sub/b").next_poll > Current.next_poll
  /\ result[2] = "added"

====
